---- MODULE Spec2Model ----
(***************************************************************************)
(* Model of src/src/module.ts: the abstract class Module of tpack-modular. *)
(*                                                                         *)
(* A module owns a list of pending dependency declarations (requires), a   *)
(* resolved flag, a reference to its source file and three edge lists      *)
(* (includes, imports, excludes).  resolve() walks the declarations,       *)
(* resolves every target and fires the callbacks, which fill the edge      *)
(* lists; getModuleList() computes the bundle order from the edges.        *)
(*                                                                         *)
(* Paths are modelled by the identity of the module they name, so          *)
(* packer.getModuleFromPath(p) is the module p; Null stands for            *)
(* undefined / null.  file.dep(...) only records a build-cache dependency  *)
(* in the digo.File object and is modelled by its one visible effect       *)
(* here: it throws a TypeError once this.file has been deleted.            *)
(***************************************************************************)
EXTENDS Integers, Sequences, FiniteSets, TLC

\* The module instances held by the packer.
Modules == {"A", "B", "C"}

\* undefined / null.
Null == "null"

\* Bound: entries of options.imports and options.excludes over all modules.
MaxOptions == 2

\* Bound: calls of require() by subclass code in the resolution runs.
MaxRequires == 1

\* Bound: calls of import() and exclude() in the ordering runs.
MaxEdges == 4

\* Bound: calls of include() in the includes-only runs.
MaxIncludes == 4

\* Bound: calls by subclass code in the runs that mix every operation.
MaxCalls == 2

VARIABLES
    options,      \* Module.options: [imports, excludes], paths already resolved
    srcPath,      \* Module.srcPath is set (FALSE for a synthetic module)
    requires,     \* Module.requires: sequence of [path, cb]
    hasRequires,  \* FALSE once `delete this.requires` has run
    hasFile,      \* FALSE once `delete this.file` has run
    resolved,     \* Module.resolved
    includes,     \* Module.includes
    imports,      \* Module.imports
    excludes,     \* Module.excludes
    stack,        \* call stack of the running resolve(): frames [self, i, pc]
    declared,     \* history: per module, every declaration require() has queued
    invoked,      \* history: per module and declaration, the arguments its callback got
    fetched,      \* history: per module and declaration, getModuleFromPath calls
    ncall,        \* history: number of calls made by subclass code
    last,         \* history: the last call [op, self, arg, ret]
    list,         \* history: the list returned by the last getModuleList()
    ensured       \* history: the packer.ensureFile calls of the last ensure()

vars == <<options, srcPath, requires, hasRequires, hasFile, resolved, includes,
          imports, excludes, stack, declared, invoked, fetched, ncall, last, list, ensured>>

resolveVars == <<requires, hasRequires, hasFile, resolved, stack, declared, invoked, fetched>>

edgeVars == <<includes, imports, excludes>>

----------------------------------------------------------------------------
\* Helpers on sequences.

Range(s) == {s[k] : k \in 1..Len(s)}

\* Array.prototype.indexOf(x) >= 0
Contains(s, x) == \E k \in 1..Len(s) : s[k] = x

\* Array.prototype.filter
RECURSIVE Filter(_, _)
Filter(s, drop) ==
    IF s = <<>> THEN <<>>
    ELSE IF Contains(drop, Head(s)) THEN Filter(Tail(s), drop)
    ELSE <<Head(s)>> \o Filter(Tail(s), drop)

\* Sequences over S of length at most n.
SeqsUpTo(S, n) == UNION {[1..k -> S] : k \in 0..n}

----------------------------------------------------------------------------
\* Order compiler: addImportsTo, addExcludesTo, getModuleList.
\* acc is the pair of arrays [result, processed] both methods push to.

\* Mutant: the module is pushed to result before its imports (pre-order).
RECURSIVE addImportsTo_preorder(_, _)
addImportsTo_preorder(self, acc) ==
    IF Contains(acc.processed, self) THEN acc
    ELSE LET RECURSIVE loop(_, _)
             loop(k, a) ==
                 IF k > Len(imports[self]) THEN a
                 ELSE loop(k + 1, addImportsTo_preorder(imports[self][k], a))
         IN loop(1, [result |-> Append(acc.result, self),
                     processed |-> Append(acc.processed, self)])

\* Mutant: a module met again is pushed to result once more.
RECURSIVE addImportsTo_again(_, _)
addImportsTo_again(self, acc) ==
    IF Contains(acc.processed, self) THEN [acc EXCEPT !.result = Append(@, self)]
    ELSE LET RECURSIVE loop(_, _)
             loop(k, a) ==
                 IF k > Len(imports[self]) THEN a
                 ELSE loop(k + 1, addImportsTo_again(imports[self][k], a))
             done == loop(1, [acc EXCEPT !.processed = Append(@, self)])
         IN [done EXCEPT !.result = Append(@, self)]

RECURSIVE addImportsTo(_, _)
addImportsTo(self, acc) ==
    IF Contains(acc.processed, self) THEN acc
    ELSE LET RECURSIVE loop(_, _)
             loop(k, a) ==
                 IF k > Len(imports[self]) THEN a
                 ELSE loop(k + 1, addImportsTo(imports[self][k], a))
             done == loop(1, [acc EXCEPT !.processed = Append(@, self)])
         IN [done EXCEPT !.result = Append(@, self)]

RECURSIVE addExcludesTo(_, _)
addExcludesTo(self, acc) ==
    IF Contains(acc.processed, self) THEN acc
    ELSE LET RECURSIVE loop(_, _)
             loop(k, a) ==
                 IF k > Len(excludes[self]) THEN a
                 ELSE LET module == excludes[self][k]
                      IN loop(k + 1, addExcludesTo(module, addImportsTo(module, a)))
         IN loop(1, [acc EXCEPT !.processed = Append(@, self)])

\* Mutant: the arguments of addExcludesTo are swapped, addExcludesTo([this],
\* excludes), so the modules filtered out are the processed ones, root included.
getModuleList_swapped(self) ==
    LET imps == addImportsTo(self, [result |-> <<>>, processed |-> <<>>]).result
        excl == addExcludesTo(self, [result |-> <<self>>, processed |-> <<>>]).processed
    IN IF Len(excl) > 0 THEN Filter(imps, excl) ELSE imps

getModuleList(self) ==
    LET imps == addImportsTo(self, [result |-> <<>>, processed |-> <<>>]).result
        excl == addExcludesTo(self, [result |-> <<>>, processed |-> <<self>>]).result
    IN IF Len(excl) > 0 THEN Filter(imps, excl) ELSE imps

----------------------------------------------------------------------------
\* Relation graph: hasInclude, include, import, exclude.
\* `thrown` is the error the call raises, or "none" when it returns.

\* this.file.dep(module.srcPath, ...) behind `if (module.srcPath)`:
\* reading .dep of the deleted this.file raises a TypeError.
depThrows(self, module) ==
    IF srcPath[module] /\ ~hasFile[self] THEN "TypeError" ELSE "none"

\* Mutant: only the direct includes are looked at, not their own includes.
hasInclude_direct(self, module) ==
    \/ module = self
    \/ Contains(includes[self], module)

RECURSIVE hasInclude(_, _)
hasInclude(self, module) ==
    \/ module = self
    \/ \E k \in 1..Len(includes[self]) : hasInclude(includes[self][k], module)

include(self, module, ret) ==
    IF hasInclude(module, self)
    THEN /\ ret = "false"
         /\ UNCHANGED edgeVars
    ELSE /\ includes' = [includes EXCEPT ![self] = Append(@, module)]
         /\ UNCHANGED <<imports, excludes>>
         /\ ret = IF depThrows(self, module) = "none" THEN "true"
                  ELSE depThrows(self, module)

\* Mutant: the self check of import() is missing.
import_noSelfCheck(self, module, thrown) ==
    /\ imports' = [imports EXCEPT ![self] = Append(@, module)]
    /\ UNCHANGED <<includes, excludes>>
    /\ thrown = depThrows(self, module)

import(self, module, thrown) ==
    IF module = self
    THEN /\ thrown = "none"
         /\ UNCHANGED edgeVars
    ELSE /\ imports' = [imports EXCEPT ![self] = Append(@, module)]
         /\ UNCHANGED <<includes, excludes>>
         /\ thrown = depThrows(self, module)

exclude(self, module, thrown) ==
    IF module = self
    THEN /\ thrown = "none"
         /\ UNCHANGED edgeVars
    ELSE /\ excludes' = [excludes EXCEPT ![self] = Append(@, module)]
         /\ UNCHANGED <<includes, imports>>
         /\ thrown = depThrows(self, module)

----------------------------------------------------------------------------
\* Dependency registry: the constructor, require.

Errors == {"AssertionError", "TypeError"}

\* The callbacks a declaration can carry: the two the constructor queues
\* (module => { if (module) this.import(module) }, the same with exclude) and
\* a subclass callback that declares one more dependency on the path it was
\* registered with: () => this.require(path, module => { if (module) this.import(module) }).
CtorCallbacks == {"import", "exclude"}

Callbacks == CtorCallbacks \cup {"require"}

Paths == Modules \cup {Null}

\* Most declarations one module can hold.
MaxDeclarations == MaxOptions + 2 * (MaxRequires + MaxCalls)

\* Mutant: the callback queued for options.excludes calls this.import.
Constructor_allImports(opts) ==
    [k \in 1..Len(opts.imports) |-> [path |-> opts.imports[k], cb |-> "import"]]
    \o [k \in 1..Len(opts.excludes) |-> [path |-> opts.excludes[k], cb |-> "import"]]

\* The declarations the constructor queues: options.imports, then options.excludes.
Constructor(opts) ==
    [k \in 1..Len(opts.imports) |-> [path |-> opts.imports[k], cb |-> "import"]]
    \o [k \in 1..Len(opts.excludes) |-> [path |-> opts.excludes[k], cb |-> "exclude"]]

\* console.assert(!this.resolved) throws an AssertionError on Node.js before
\* version 10 and only prints elsewhere; `asserts` is which of the two it does.
\* requires.push on the deleted list raises a TypeError.
require(self, path, cb, asserts, thrown) ==
    IF resolved[self] /\ asserts
    THEN /\ thrown = "AssertionError"
         /\ UNCHANGED requires
    ELSE IF hasRequires[self]
    THEN /\ thrown = "none"
         /\ requires' = [requires EXCEPT ![self] = Append(@, [path |-> path, cb |-> cb])]
    ELSE /\ thrown = "TypeError"
         /\ UNCHANGED requires

\* Mutant: the `if (req[0])` test is missing.
ensure_everyDeclaration(self, asserts) ==
    IF resolved[self] /\ asserts
    THEN [thrown |-> "AssertionError", files |-> <<>>]
    ELSE IF hasRequires[self]
    THEN [thrown |-> "none",
          files |-> [k \in 1..Len(requires[self]) |-> requires[self][k].path]]
    ELSE [thrown |-> "TypeError", files |-> <<>>]

\* ensure(): console.assert(!this.resolved), then packer.ensureFile(req[0]) for
\* each pending declaration with a path, in order.  `files` are the paths
\* handed to the packer.  Iterating the deleted list raises a TypeError.
ensure(self, asserts) ==
    IF resolved[self] /\ asserts
    THEN [thrown |-> "AssertionError", files |-> <<>>]
    ELSE IF hasRequires[self]
    THEN [thrown |-> "none",
          files |-> LET paths == [k \in 1..Len(requires[self]) |-> requires[self][k].path]
                        HasPath(p) == p # Null
                    IN SelectSeq(paths, HasPath)]
    ELSE [thrown |-> "TypeError", files |-> <<>>]

----------------------------------------------------------------------------
\* Initial states: every module constructed, nothing resolved.

NoOptions == [imports |-> <<>>, excludes |-> <<>>]

\* One entry of some module's options.imports or options.excludes.
OptionEntries == [self : Modules, key : {"imports", "excludes"}, path : Modules]

RECURSIVE OptionsFrom(_)
OptionsFrom(es) ==
    IF es = <<>> THEN [m \in Modules |-> NoOptions]
    ELSE LET e == es[Len(es)]
             rest == OptionsFrom(SubSeq(es, 1, Len(es) - 1))
         IN [rest EXCEPT ![e.self][e.key] = Append(@, e.path)]

InitWith(opts, src) ==
    /\ options = opts
    /\ srcPath = src
    /\ requires = [m \in Modules |-> Constructor(opts[m])]
    /\ hasRequires = [m \in Modules |-> TRUE]
    /\ hasFile = [m \in Modules |-> TRUE]
    /\ resolved = [m \in Modules |-> FALSE]
    /\ includes = [m \in Modules |-> <<>>]
    /\ imports = [m \in Modules |-> <<>>]
    /\ excludes = [m \in Modules |-> <<>>]
    /\ stack = <<>>
    /\ declared = [m \in Modules |-> Constructor(opts[m])]
    /\ invoked = [m \in Modules |-> [k \in 1..MaxDeclarations |-> <<>>]]
    /\ fetched = [m \in Modules |-> [k \in 1..MaxDeclarations |-> 0]]
    /\ ncall = 0
    /\ last = [op |-> "new", self |-> Null, arg |-> Null, ret |-> "none"]
    /\ list = <<>>
    /\ ensured = <<>>

AllSrcPaths == [m \in Modules |-> TRUE]

\* Every module has a source path, or C is a synthetic module without one.
SrcPathChoices == {AllSrcPaths, [m \in Modules |-> m # "C"]}

\* Modules constructed without options.
InitPlain == InitWith([m \in Modules |-> NoOptions], AllSrcPaths)

\* Modules constructed with at most MaxOptions option entries in all.
Init ==
    \E es \in SeqsUpTo(OptionEntries, MaxOptions) :
        InitWith(OptionsFrom(es), AllSrcPaths)

----------------------------------------------------------------------------
\* Direct calls of the protected edge methods and of getModuleList, made by
\* subclass code while no resolve() is running.

Include(self, module, max) ==
    /\ stack = <<>>
    /\ ncall < max
    /\ \E ret \in {"true", "false"} \cup Errors :
        /\ include(self, module, ret)
        /\ last' = [op |-> "include", self |-> self, arg |-> module, ret |-> ret]
    /\ ncall' = ncall + 1
    /\ UNCHANGED <<options, srcPath, resolveVars, list, ensured>>

Import(self, module, max) ==
    /\ stack = <<>>
    /\ ncall < max
    /\ \E thrown \in {"none"} \cup Errors :
        /\ import(self, module, thrown)
        /\ last' = [op |-> "import", self |-> self, arg |-> module, ret |-> thrown]
    /\ ncall' = ncall + 1
    /\ UNCHANGED <<options, srcPath, resolveVars, list, ensured>>

Exclude(self, module, max) ==
    /\ stack = <<>>
    /\ ncall < max
    /\ \E thrown \in {"none"} \cup Errors :
        /\ exclude(self, module, thrown)
        /\ last' = [op |-> "exclude", self |-> self, arg |-> module, ret |-> thrown]
    /\ ncall' = ncall + 1
    /\ UNCHANGED <<options, srcPath, resolveVars, list, ensured>>

\* Mutant: the walk consumes this.imports (shift) instead of reading it.
GetModuleList_shift(self) ==
    /\ stack = <<>>
    /\ list' = getModuleList(self)
    /\ imports' = [imports EXCEPT ![self] = IF @ = <<>> THEN @ ELSE Tail(@)]
    /\ last' = [op |-> "getModuleList", self |-> self, arg |-> Null, ret |-> "none"]
    /\ UNCHANGED <<options, srcPath, resolveVars, includes, excludes, ncall, ensured>>

GetModuleList(self) ==
    /\ stack = <<>>
    /\ list' = getModuleList(self)
    /\ last' = [op |-> "getModuleList", self |-> self, arg |-> Null, ret |-> "none"]
    /\ UNCHANGED <<options, srcPath, resolveVars, edgeVars, ncall, ensured>>

----------------------------------------------------------------------------
\* Resolver: resolve(), one action per step of the method.  A frame of `stack`
\* is one running call: self, the index i of the declaration the for loop is
\* at, and pc = "loop" (about to take requires[i]) or "cb" (module.resolve()
\* has been called for requires[i], its callback comes next).

Top == stack[Len(stack)]

\* The loop moves on to the next declaration.
Advance == [stack EXCEPT ![Len(stack)] = [@ EXCEPT !.i = @ + 1, !.pc = "loop"]]

\* Mutant: the constructor's callbacks call module.import(this) and
\* module.exclude(this) in place of this.import(module) and this.exclude(module).
invoke_onTarget(self, i, arg) ==
    LET cb == requires[self][i].cb
    IN \E asserts \in BOOLEAN, thrown \in {"none"} \cup Errors :
        /\ invoked' = [invoked EXCEPT ![self][i] = Append(@, arg)]
        /\ IF cb = "require"
           THEN /\ require(self, requires[self][i].path, "import", asserts, thrown)
                /\ UNCHANGED edgeVars
           ELSE /\ UNCHANGED requires
                /\ IF arg = Null
                   THEN thrown = "none" /\ UNCHANGED edgeVars
                   ELSE IF cb = "import"
                   THEN import(arg, self, thrown)
                   ELSE exclude(arg, self, thrown)
        /\ declared' = IF cb = "require" /\ thrown = "none"
                       THEN [declared EXCEPT ![self] = Append(@, [path |-> requires[self][i].path, cb |-> "import"])]
                       ELSE declared
        /\ stack' = IF thrown = "none" THEN Advance ELSE <<>>
        /\ last' = IF thrown = "none" THEN last ELSE [last EXCEPT !.ret = thrown]

\* req[1](arg): the callback of declaration i of self runs with arg.  An
\* error it raises is caught nowhere and ends every running resolve().
invoke(self, i, arg) ==
    LET cb == requires[self][i].cb
    IN \E asserts \in BOOLEAN, thrown \in {"none"} \cup Errors :
        /\ invoked' = [invoked EXCEPT ![self][i] = Append(@, arg)]
        /\ IF cb = "require"
           THEN /\ require(self, requires[self][i].path, "import", asserts, thrown)
                /\ UNCHANGED edgeVars
           ELSE /\ UNCHANGED requires
                /\ IF arg = Null
                   THEN thrown = "none" /\ UNCHANGED edgeVars
                   ELSE IF cb = "import"
                   THEN import(self, arg, thrown)
                   ELSE exclude(self, arg, thrown)
        /\ declared' = IF cb = "require" /\ thrown = "none"
                       THEN [declared EXCEPT ![self] = Append(@, [path |-> requires[self][i].path, cb |-> "import"])]
                       ELSE declared
        /\ stack' = IF thrown = "none" THEN Advance ELSE <<>>
        /\ last' = IF thrown = "none" THEN last ELSE [last EXCEPT !.ret = thrown]

\* Mutant: the `if (this.resolved) return` guard is missing.
Resolve_again(self) ==
    /\ stack = <<>>
    /\ resolved' = [resolved EXCEPT ![self] = TRUE]
    /\ stack' = <<[self |-> self, i |-> 1, pc |-> "loop"]>>
    /\ last' = [op |-> "resolve", self |-> self, arg |-> Null, ret |-> "running"]
    /\ UNCHANGED <<options, srcPath, requires, hasRequires, hasFile, declared,
                   invoked, fetched, ncall, edgeVars, list, ensured>>

\* The orchestrator calls self.resolve().
Resolve(self) ==
    /\ stack = <<>>
    /\ IF resolved[self]
       THEN /\ last' = [op |-> "resolve", self |-> self, arg |-> Null, ret |-> "return"]
            /\ UNCHANGED <<resolved, stack>>
       ELSE /\ resolved' = [resolved EXCEPT ![self] = TRUE]
            /\ stack' = <<[self |-> self, i |-> 1, pc |-> "loop"]>>
            /\ last' = [op |-> "resolve", self |-> self, arg |-> Null, ret |-> "running"]
    /\ UNCHANGED <<options, srcPath, requires, hasRequires, hasFile, declared,
                   invoked, fetched, ncall, edgeVars, list, ensured>>

\* Mutant: a target that is resolved already is passed over, callback and all.
ResolveTarget_skip ==
    /\ stack # <<>>
    /\ Top.pc = "loop"
    /\ Top.i <= Len(requires[Top.self])
    /\ requires[Top.self][Top.i].path # Null
    /\ LET module == requires[Top.self][Top.i].path
           waiting == [stack EXCEPT ![Len(stack)].pc = "cb"]
       IN /\ fetched' = [fetched EXCEPT ![Top.self][Top.i] = @ + 1]
          /\ IF resolved[module]
             THEN /\ stack' = Advance
                  /\ UNCHANGED resolved
             ELSE /\ resolved' = [resolved EXCEPT ![module] = TRUE]
                  /\ stack' = Append(waiting, [self |-> module, i |-> 1, pc |-> "loop"])
    /\ UNCHANGED <<options, srcPath, requires, hasRequires, hasFile, declared,
                   invoked, ncall, edgeVars, last, list, ensured>>

\* Mutant: the module is fetched but module.resolve() is not called.
ResolveTarget_noResolve ==
    /\ stack # <<>>
    /\ Top.pc = "loop"
    /\ Top.i <= Len(requires[Top.self])
    /\ requires[Top.self][Top.i].path # Null
    /\ fetched' = [fetched EXCEPT ![Top.self][Top.i] = @ + 1]
    /\ stack' = [stack EXCEPT ![Len(stack)].pc = "cb"]
    /\ UNCHANGED <<options, srcPath, requires, hasRequires, hasFile, resolved,
                   declared, invoked, ncall, edgeVars, last, list, ensured>>

\* The loop takes a declaration with a target: getModuleFromPath, module.resolve().
ResolveTarget ==
    /\ stack # <<>>
    /\ Top.pc = "loop"
    /\ Top.i <= Len(requires[Top.self])
    /\ requires[Top.self][Top.i].path # Null
    /\ LET module == requires[Top.self][Top.i].path
           waiting == [stack EXCEPT ![Len(stack)].pc = "cb"]
       IN /\ fetched' = [fetched EXCEPT ![Top.self][Top.i] = @ + 1]
          /\ IF resolved[module]
             THEN /\ stack' = waiting
                  /\ UNCHANGED resolved
             ELSE /\ resolved' = [resolved EXCEPT ![module] = TRUE]
                  /\ stack' = Append(waiting, [self |-> module, i |-> 1, pc |-> "loop"])
    /\ UNCHANGED <<options, srcPath, requires, hasRequires, hasFile, declared,
                   invoked, ncall, edgeVars, last, list, ensured>>

\* module.resolve() has returned: req[1](module).
ResolveCallback ==
    /\ stack # <<>>
    /\ Top.pc = "cb"
    /\ invoke(Top.self, Top.i, requires[Top.self][Top.i].path)
    /\ UNCHANGED <<options, srcPath, hasRequires, hasFile, resolved, fetched,
                   ncall, list, ensured>>

\* Mutant: a declaration without a target is passed over, its callback not called.
ResolveNull_skip ==
    /\ stack # <<>>
    /\ Top.pc = "loop"
    /\ Top.i <= Len(requires[Top.self])
    /\ requires[Top.self][Top.i].path = Null
    /\ stack' = Advance
    /\ UNCHANGED <<options, srcPath, requires, hasRequires, hasFile, resolved,
                   declared, invoked, fetched, ncall, edgeVars, last, list, ensured>>

\* The loop takes a declaration without a target: req[1](null).
ResolveNull ==
    /\ stack # <<>>
    /\ Top.pc = "loop"
    /\ Top.i <= Len(requires[Top.self])
    /\ requires[Top.self][Top.i].path = Null
    /\ invoke(Top.self, Top.i, Null)
    /\ UNCHANGED <<options, srcPath, hasRequires, hasFile, resolved, fetched,
                   ncall, list, ensured>>

\* Mutant: `delete (this as any).file` is missing.
ResolveDone_keepFile ==
    /\ stack # <<>>
    /\ Top.pc = "loop"
    /\ Top.i > Len(requires[Top.self])
    /\ requires' = [requires EXCEPT ![Top.self] = <<>>]
    /\ hasRequires' = [hasRequires EXCEPT ![Top.self] = FALSE]
    /\ stack' = SubSeq(stack, 1, Len(stack) - 1)
    /\ last' = IF Len(stack) = 1 THEN [last EXCEPT !.ret = "return"] ELSE last
    /\ UNCHANGED <<options, srcPath, hasFile, resolved, declared, invoked, fetched,
                   ncall, edgeVars, list, ensured>>

\* The loop is over: delete this.requires, delete this.file, return.
ResolveDone ==
    /\ stack # <<>>
    /\ Top.pc = "loop"
    /\ Top.i > Len(requires[Top.self])
    /\ requires' = [requires EXCEPT ![Top.self] = <<>>]
    /\ hasRequires' = [hasRequires EXCEPT ![Top.self] = FALSE]
    /\ hasFile' = [hasFile EXCEPT ![Top.self] = FALSE]
    /\ stack' = SubSeq(stack, 1, Len(stack) - 1)
    /\ last' = IF Len(stack) = 1 THEN [last EXCEPT !.ret = "return"] ELSE last
    /\ UNCHANGED <<options, srcPath, resolved, declared, invoked, fetched, ncall,
                   edgeVars, list, ensured>>

\* Subclass code declares a dependency of a module that is not resolved yet.
Require(self, path, cb, max) ==
    /\ stack = <<>>
    /\ ncall < max
    /\ ~resolved[self]
    /\ require(self, path, cb, FALSE, "none")
    /\ declared' = [declared EXCEPT ![self] = Append(@, [path |-> path, cb |-> cb])]
    /\ ncall' = ncall + 1
    /\ last' = [op |-> "require", self |-> self, arg |-> path, ret |-> "none"]
    /\ UNCHANGED <<options, srcPath, hasRequires, hasFile, resolved, stack,
                   invoked, fetched, edgeVars, list, ensured>>

\* Subclass code declares a dependency of a module that is resolved already.
LateRequire(self, path, cb, max) ==
    /\ stack = <<>>
    /\ ncall < max
    /\ resolved[self]
    /\ \E asserts \in BOOLEAN, thrown \in {"none"} \cup Errors :
        /\ require(self, path, cb, asserts, thrown)
        /\ declared' = IF thrown = "none"
                       THEN [declared EXCEPT ![self] = Append(@, [path |-> path, cb |-> cb])]
                       ELSE declared
        /\ last' = [op |-> "require", self |-> self, arg |-> path, ret |-> thrown]
    /\ ncall' = ncall + 1
    /\ UNCHANGED <<options, srcPath, hasRequires, hasFile, resolved, stack,
                   invoked, fetched, edgeVars, list, ensured>>

\* The orchestrator calls ensure() of a module, resolved or not.
Ensure(self) ==
    /\ stack = <<>>
    /\ \E asserts \in BOOLEAN :
        /\ ensured' = ensure(self, asserts).files
        /\ last' = [op |-> "ensure", self |-> self, arg |-> Null,
                    ret |-> ensure(self, asserts).thrown]
    /\ UNCHANGED <<options, srcPath, resolveVars, edgeVars, ncall, list>>

ResolveStep == ResolveTarget \/ ResolveCallback \/ ResolveNull \/ ResolveDone

----------------------------------------------------------------------------
\* Specifications.

\* Construction with options, declarations without a target, resolution.
Next ==
    \/ \E self \in Modules : Resolve(self)
    \/ ResolveStep
    \/ \E self \in Modules, cb \in CtorCallbacks : Require(self, Null, cb, MaxRequires)

Spec == Init /\ [][Next]_vars

\* Declarations with and without a target, ensure() calls of the
\* orchestrator, resolution.
NextEnsure ==
    \/ \E self \in Modules : Resolve(self)
    \/ ResolveStep
    \/ \E self \in Modules, path \in Paths, cb \in CtorCallbacks :
          Require(self, path, cb, MaxCalls)
    \/ \E self \in Modules : Ensure(self)

SpecEnsure == InitPlain /\ [][NextEnsure]_vars

\* Declarations made too late: after resolve(), or from a callback of resolve().
NextMisuse ==
    \/ \E self \in Modules : Resolve(self)
    \/ ResolveStep
    \/ \E self \in Modules, path \in Paths, cb \in Callbacks :
          Require(self, path, cb, MaxCalls)
    \/ \E self \in Modules, path \in Paths, cb \in CtorCallbacks :
          LateRequire(self, path, cb, MaxCalls)

SpecMisuse == InitPlain /\ [][NextMisuse]_vars

\* Only include() calls.
NextInclude == \E self, module \in Modules : Include(self, module, MaxIncludes)

SpecInclude == InitPlain /\ [][NextInclude]_vars

\* Only import(), exclude() and getModuleList() calls.
NextGraph ==
    \/ \E self, module \in Modules : Import(self, module, MaxEdges)
    \/ \E self, module \in Modules : Exclude(self, module, MaxEdges)
    \/ \E self \in Modules : GetModuleList(self)

SpecGraph == InitPlain /\ [][NextGraph]_vars

\* Every operation: declarations, resolution and direct calls of the edge
\* methods, before and after the caller was resolved.
InitAll == \E src \in SrcPathChoices : InitWith([m \in Modules |-> NoOptions], src)

NextAll ==
    \/ \E self \in Modules : Resolve(self)
    \/ ResolveStep
    \/ \E self \in Modules, path \in Paths, cb \in CtorCallbacks :
          Require(self, path, cb, MaxCalls)
    \/ \E self, module \in Modules : Include(self, module, MaxCalls)
    \/ \E self, module \in Modules : Import(self, module, MaxCalls)
    \/ \E self, module \in Modules : Exclude(self, module, MaxCalls)

SpecAll == InitAll /\ [][NextAll]_vars

----------------------------------------------------------------------------
\* Notions the properties are stated with.

\* The modules reachable from the set S through edges of the relation rel,
\* S included, never going through a module of `avoid`.
RECURSIVE ReachAvoiding(_, _, _)
ReachAvoiding(rel, S, avoid) ==
    LET more == S \cup {n \in Modules \ avoid : \E m \in S : Contains(rel[m], n)}
    IN IF more = S THEN S ELSE ReachAvoiding(rel, more, avoid)

Reach(rel, S) == ReachAvoiding(rel, S, {})

\* Position of x in the sequence s, 0 when absent.
IndexOf(s, x) == IF Contains(s, x) THEN CHOOSE k \in 1..Len(s) : s[k] = x ELSE 0

NoDuplicates(s) == \A j, k \in 1..Len(s) : s[j] = s[k] => j = k

\* Depth-first post-order of the imports graph from root, with an explicit
\* stack of [module, next import to visit]: a module is visited once, its
\* imports in stored order, and it is emitted when its frame is popped.
RECURSIVE PostOrderRun(_, _, _)
PostOrderRun(frames, visited, out) ==
    IF frames = <<>> THEN out
    ELSE LET f == frames[Len(frames)]
             below == SubSeq(frames, 1, Len(frames) - 1)
         IN IF f.next > Len(imports[f.module])
            THEN PostOrderRun(below, visited, Append(out, f.module))
            ELSE LET child == imports[f.module][f.next]
                     moved == Append(below, [f EXCEPT !.next = @ + 1])
                 IN IF child \in visited
                    THEN PostOrderRun(moved, visited, out)
                    ELSE PostOrderRun(Append(moved, [module |-> child, next |-> 1]),
                                      visited \cup {child}, out)

PostOrder(root) == PostOrderRun(<<[module |-> root, next |-> 1]>>, {root}, <<>>)

\* getModuleList() has just returned `list` for the root last.self.
Listed == last.op = "getModuleList"

Edges(a, b, c) == [m \in Modules |-> IF m = "A" THEN a ELSE IF m = "B" THEN b ELSE c]

NoEdges == Edges(<<>>, <<>>, <<>>)

----------------------------------------------------------------------------
\* C1: exclusion through imports.  The list of a root R holds no module M
\* that R excludes and no module other than R that M reaches through imports
\* edges.
C1_ExclusionThroughImports ==
    Listed =>
        \A M \in Range(excludes[last.self]) :
            \A N \in Reach(imports, {M}) \ {last.self} : ~Contains(list, N)

\* C3: cycle-safe, duplicate-free ordering.  The list of a root without
\* excludes holds exactly the modules reachable from the root through
\* imports edges, the root included, each once; for the cycle A imports B,
\* B imports A the list of A is [B, A].
C3_CycleSafeOrdering ==
    (Listed /\ excludes[last.self] = <<>>) =>
        /\ Range(list) = Reach(imports, {last.self})
        /\ NoDuplicates(list)
        /\ ( /\ last.self = "A"
             /\ imports = Edges(<<"B">>, <<"A">>, <<>>) ) => list = <<"B", "A">>

C3_Witness ==
    /\ Listed
    /\ last.self = "A"
    /\ excludes = NoEdges
    /\ imports = Edges(<<"B", "B">>, <<"A", "C">>, <<>>)
    /\ list = <<"C", "B", "A">>

\* C4: dependencies before dependents.  As stated: for every m in the list
\* and every n in m.imports that is in the list, n comes before m.
C4_AsStated ==
    Listed =>
        \A m \in Range(list) : \A n \in Range(imports[m]) :
            Contains(list, n) => IndexOf(list, n) < IndexOf(list, m)

\* C4 (amended): for every m in the list and every n in m.imports that is in
\* the list and does not itself reach m through imports edges (m and n are
\* on no common import cycle), n comes before m.
C4_DependenciesFirst ==
    Listed =>
        \A m \in Range(list) : \A n \in Range(imports[m]) :
            (Contains(list, n) /\ m \notin Reach(imports, {n}))
                => IndexOf(list, n) < IndexOf(list, m)

C4_Witness ==
    /\ Listed
    /\ last.self = "A"
    /\ imports = Edges(<<"B", "C">>, <<"C">>, <<"B">>)
    /\ excludes = NoEdges
    /\ list = <<"C", "B", "A">>

\* C5: order stability.  The list of a root without excludes is the
\* depth-first post-order of the imports graph from the root, imports taken
\* in stored order, a module emitted at its first visit only; for A imports
\* [B, C] and B imports [C] the list of A is [C, B, A].
C5_OrderStability ==
    (Listed /\ excludes[last.self] = <<>>) =>
        /\ list = PostOrder(last.self)
        /\ ( /\ last.self = "A"
             /\ imports = Edges(<<"B", "C">>, <<"C">>, <<>>) ) => list = <<"C", "B", "A">>

C5_Witness ==
    /\ Listed
    /\ last.self = "A"
    /\ excludes = NoEdges
    /\ imports = Edges(<<"B", "C">>, <<"C">>, <<>>)
    /\ list = <<"C", "B", "A">>

----------------------------------------------------------------------------
\* No module reaches itself through one or more edges of rel.
Acyclic(rel) == \A m \in Modules : m \notin Reach(rel, Range(rel[m]))

\* C2: acyclic includes.  After every include() call no module reaches
\* itself through includes edges; a call self.include(module) that would
\* close a cycle (module is self, or module already reaches self through
\* includes) returns false and changes no includes list, and every other
\* call returns true and appends exactly module to the includes of self.
C2_AcyclicIncludes ==
    [][ ncall' = ncall + 1 =>
          LET self == last'.self
              module == last'.arg
          IN /\ last'.op = "include"
             /\ Acyclic(includes')
             /\ IF self \in Reach(includes, {module})
                THEN last'.ret = "false" /\ includes' = includes
                ELSE /\ last'.ret = "true"
                     /\ includes' = [includes EXCEPT ![self] = Append(@, module)] ]_vars

C2_Witness ==
    /\ last = [op |-> "include", self |-> "C", arg |-> "A", ret |-> "false"]
    /\ includes = Edges(<<"B", "B">>, <<"C">>, <<>>)

----------------------------------------------------------------------------
\* Every callback of every declaration has been called at most once.
AtMostOnce == \A m \in Modules : \A k \in 1..MaxDeclarations : Len(invoked[m][k]) <= 1

\* C6: resolve() is idempotent.  A call of resolve() on a module whose
\* resolved flag is true, by the orchestrator or from the loop of another
\* resolve(), returns at once: no callback is called, no resolve() is
\* started for any module, and no list of any module changes; over all
\* resolve() calls every declaration's callback is called at most once.
C6_ResolveIdempotent ==
    [][ /\ AtMostOnce'
        /\ \A m \in Modules :
             (stack = <<>> /\ resolved[m] /\ last'.op = "resolve" /\ last'.self = m)
               => /\ last'.ret = "return"
                  /\ UNCHANGED <<requires, hasRequires, hasFile, resolved, stack,
                                 declared, invoked, fetched, edgeVars>>
        /\ ( /\ stack # <<>>
             /\ Top.pc = "loop"
             /\ Top.i <= Len(requires[Top.self])
             /\ requires[Top.self][Top.i].path # Null
             /\ resolved[requires[Top.self][Top.i].path] )
               => /\ Len(stack') = Len(stack)
                  /\ UNCHANGED <<requires, hasRequires, hasFile, resolved,
                                 declared, invoked, edgeVars>> ]_vars

\* resolve() was called on B after B had been resolved as an import of A.
C6_Witness ==
    /\ stack = <<>>
    /\ last = [op |-> "resolve", self |-> "B", arg |-> Null, ret |-> "return"]
    /\ options["A"] = [imports |-> <<"B">>, excludes |-> <<>>]
    /\ options["B"] = NoOptions
    /\ imports["A"] = <<"B">>
    /\ invoked["A"][1] = <<"B">>

\* C8: null-target skip.  A declaration without a target has its callback
\* called with null and nothing else, once by the time the resolve() of its
\* module is over; no module is fetched or resolved for it; and the
\* callbacks the constructor queues change no includes, imports or
\* excludes list when they get null.
C8_NullTargetSkip ==
    [][ /\ \A m \in Modules : \A k \in 1..Len(declared'[m]) :
             declared'[m][k].path = Null
               => /\ fetched'[m][k] = 0
                  /\ invoked'[m][k] \in {<<>>, <<Null>>}
                  /\ ~hasRequires'[m] => invoked'[m][k] = <<Null>>
        /\ \A m \in Modules : \A k \in 1..Len(declared[m]) :
             ( /\ declared[m][k].path = Null
               /\ declared[m][k].cb \in CtorCallbacks
               /\ invoked'[m][k] # invoked[m][k] )
               => /\ UNCHANGED edgeVars
                  /\ UNCHANGED resolved
                  /\ Len(stack') = Len(stack) ]_vars

\* A finished module with an import and a declaration without a target.
C8_Witness ==
    /\ stack = <<>>
    /\ ~hasRequires["A"]
    /\ declared["A"] = <<[path |-> "B", cb |-> "import"], [path |-> Null, cb |-> "exclude"]>>
    /\ invoked["A"][2] = <<Null>>
    /\ imports["A"] = <<"B">>
    /\ excludes["A"] = <<>>

----------------------------------------------------------------------------
\* The modules a module's declarations name.
Targets(m) == {declared[m][k].path : k \in 1..Len(declared[m])} \ {Null}

\* The modules reachable from root through declarations with a target.
RECURSIVE DeclReach(_)
DeclReach(S) ==
    LET more == S \cup UNION {Targets(m) : m \in S}
    IN IF more = S THEN S ELSE DeclReach(more)

\* Steps the running resolve() calls can still take: two for every
\* declaration ahead (one when its module.resolve() has been called
\* already), one to finish each call, and one more to enter a module that is
\* not resolved yet.
RECURSIVE WorkOf(_)
WorkOf(S) ==
    IF S = {} THEN 0
    ELSE LET m == CHOOSE x \in S : TRUE
         IN (IF resolved[m] THEN 0 ELSE 2 * Len(requires[m]) + 2) + WorkOf(S \ {m})

RECURSIVE WorkOn(_)
WorkOn(k) ==
    IF k = 0 THEN 0
    ELSE LET f == stack[k]
         IN 2 * (Len(requires[f.self]) - f.i + 1) + 1
            - (IF f.pc = "cb" THEN 1 ELSE 0) + WorkOn(k - 1)

Work == WorkOf(Modules) + WorkOn(Len(stack))

\* The outermost resolve() has returned, for the root last.self.
Returned == stack = <<>> /\ last.op = "resolve" /\ last.ret = "return"

Completed ==
    Returned =>
        \A m \in DeclReach({last.self}) :
            /\ resolved[m]
            /\ \A k \in 1..Len(declared[m]) : Len(invoked[m][k]) = 1

\* C10: resolution completes on cyclic graphs.  With every declared target
\* a module, resolve() on a root raises no error and terminates (a running
\* resolve() always has a next step, and every step lowers the number of
\* steps left, which is never negative); when the outermost call returns,
\* every module reachable from the root through declarations with a target
\* is resolved and each of its declarations' callbacks has been called
\* exactly once.
C10_ResolutionCompletes ==
    [][ /\ last'.ret \notin Errors
        /\ Completed'
        /\ Work' >= 0
        /\ stack # <<>> => (Work' < Work /\ ~UNCHANGED stack)
        /\ stack' # <<>> => (ENABLED ResolveStep)' ]_vars

\* resolve() on A has returned for the cycle A imports B, B imports A.
C10_Witness ==
    /\ Returned
    /\ last.self = "A"
    /\ options["A"] = [imports |-> <<"B">>, excludes |-> <<>>]
    /\ options["B"] = [imports |-> <<"A">>, excludes |-> <<>>]
    /\ imports["A"] = <<"B">>
    /\ imports["B"] = <<"A">>
    /\ ~hasRequires["A"] /\ ~hasRequires["B"]

----------------------------------------------------------------------------
\* C7: declaring a dependency after resolution fails fast.  A call of
\* require() on a module whose resolved flag is true, made after its
\* resolve() has returned or from a callback while its resolve() is running,
\* raises an error and adds no entry to the pending declarations (so that
\* no callback of such an entry is ever called).
C7_LateRequireFailsFast ==
    [][ /\ ( /\ stack = <<>>
             /\ ncall' = ncall + 1
             /\ last'.op = "require"
             /\ resolved[last'.self] )
               => (last'.ret \in Errors /\ requires' = requires)
        /\ ( /\ stack # <<>>
             /\ resolved[Top.self]
             /\ Top.i <= Len(requires[Top.self])
             /\ requires[Top.self][Top.i].cb = "require"
             /\ invoked'[Top.self][Top.i] # invoked[Top.self][Top.i] )
               => (last'.ret \in Errors /\ requires' = requires) ]_vars

\* C9: no self-edges.  In every state, after any include, import, exclude
\* and resolve calls, no module is in its own includes, imports or excludes.
C9_NoSelfEdges ==
    \A m \in Modules :
        /\ ~Contains(includes[m], m)
        /\ ~Contains(imports[m], m)
        /\ ~Contains(excludes[m], m)

\* A has been resolved with a declaration that names A itself, and
\* import(A) has then been called on A.
C9_Witness ==
    /\ last = [op |-> "import", self |-> "A", arg |-> "A", ret |-> "none"]
    /\ declared["A"] = <<[path |-> "A", cb |-> "exclude"]>>
    /\ invoked["A"][1] = <<"A">>
    /\ ~hasFile["A"]

----------------------------------------------------------------------------
\* The modules whose resolve() is running.
Running == {stack[k].self : k \in 1..Len(stack)}

\* A resolved module has shed its declarations and its file, an unresolved
\* module holds both.
Shed ==
    \A m \in Modules :
        IF resolved[m] THEN ~hasRequires[m] /\ ~hasFile[m]
        ELSE hasRequires[m] /\ hasFile[m]

ReturnsNormally ==
    /\ stack # <<>>
    /\ stack' = SubSeq(stack, 1, Len(stack) - 1)
    /\ last'.ret \notin Errors

C12_ExclusionChains ==
    Listed =>
        \A M \in Range(excludes[last.self]) :
            \A N \in Range(excludes[M]) \ {last.self} :
                \A X \in Reach(imports, {N}) \ {last.self} : ~Contains(list, X)

\* C13: callback ordering in resolve().  The callbacks of a module run in
\* declaration order, each once the ones before it have run; the callback
\* of a declaration with target T runs after T.resolve() has been called
\* and has returned, so T is resolved, and unless the resolve() of T is
\* itself still running further up the call chain, T has by then had all
\* its callbacks called and has shed its pending declarations.
C13_CallbackOrdering ==
    [][ \A m \in Modules : \A i \in 1..MaxDeclarations :
          invoked'[m][i] # invoked[m][i] =>
            /\ i <= Len(declared[m])
            /\ \A k \in 1..(i - 1) : Len(invoked[m][k]) = 1
            /\ \A k \in i..MaxDeclarations : invoked[m][k] = <<>>
            /\ declared[m][i].path # Null =>
                 LET T == declared[m][i].path
                 IN /\ fetched[m][i] = 1
                    /\ resolved[T]
                    /\ T \notin Running =>
                         /\ ~hasRequires[T]
                         /\ \A k \in 1..Len(declared[T]) : Len(invoked[T][k]) = 1 ]_vars

\* The callback of A's import of B has just run, after B was resolved with
\* its own import of C.
C13_Witness ==
    /\ stack = <<[self |-> "A", i |-> 2, pc |-> "loop"]>>
    /\ declared["A"] = <<[path |-> "B", cb |-> "import"]>>
    /\ declared["B"] = <<[path |-> "C", cb |-> "import"]>>
    /\ invoked["A"][1] = <<"B">>
    /\ invoked["B"][1] = <<"C">>
    /\ ~hasRequires["B"]
    /\ imports["A"] = <<"B">>

\* The targets of a sequence of declarations, in order, one per declaration
\* that has a target.
RECURSIVE TargetsInOrder(_)
TargetsInOrder(decls) ==
    IF decls = <<>> THEN <<>>
    ELSE (IF decls[1].path = Null THEN <<>> ELSE <<decls[1].path>>)
         \o TargetsInOrder(Tail(decls))

\* This step is a call of ensure() by the orchestrator.
EnsureCalled ==
    /\ stack = <<>>
    /\ last'.op = "ensure"
    /\ <<last, ensured>>' # <<last, ensured>>

\* C14: ensure() has no resolution effect.  On an unresolved module ensure()
\* calls ensureFile once for each pending declaration that has a target, in
\* declaration order, and for no other; it calls no callback and leaves the
\* resolved flag, the pending declarations and the edge lists of every
\* module unchanged.  Whatever ensure() calls were made, a module that has
\* completed resolve() has called each declared callback once with its
\* declared target.
C14_EnsureNoEffect ==
    [][ /\ (EnsureCalled /\ ~resolved[last'.self]) =>
             /\ last'.ret = "none"
             /\ ensured' = TargetsInOrder(declared[last'.self])
             /\ UNCHANGED <<resolveVars, edgeVars>>
        /\ \A m \in Modules :
             (resolved'[m] /\ ~hasRequires'[m]) =>
                 \A k \in 1..Len(declared'[m]) :
                     invoked'[m][k] = <<declared'[m][k].path>> ]_vars

\* ensure() of A asked for B, its one declaration with a target, and
\* resolve() of A has completed since.
C14_Witness ==
    /\ stack = <<>>
    /\ ensured = <<"B">>
    /\ declared["A"] = <<[path |-> Null, cb |-> "exclude"], [path |-> "B", cb |-> "import"]>>
    /\ resolved["A"] /\ ~hasRequires["A"]
    /\ invoked["A"][1] = <<Null>>
    /\ invoked["A"][2] = <<"B">>
    /\ imports["A"] = <<"B">>
    /\ excludes["A"] = <<>>

RECURSIVE IsSubsequence(_, _)
IsSubsequence(s, t) ==
    IF s = <<>> THEN TRUE
    ELSE IF t = <<>> THEN FALSE
    ELSE IF Head(s) = Head(t) THEN IsSubsequence(Tail(s), Tail(t))
    ELSE IsSubsequence(s, Tail(t))

\* C18: the root is never excluded from its own bundle and the exclusion
\* filter keeps order.  For any imports and excludes, the list of a root R
\* is a subsequence of the import post-order of R, and R is its last
\* element.
C18_RootKeptOrderKept ==
    Listed =>
        /\ IsSubsequence(list, PostOrder(last.self))
        /\ list # <<>>
        /\ list[Len(list)] = last.self

\* A imports B and excludes B, and B both imports and excludes A:
\* getModuleList() of A has returned a list that ends with A.
C18_Witness ==
    /\ Listed
    /\ last.self = "A"
    /\ imports = Edges(<<"B">>, <<"A">>, <<>>)
    /\ excludes = Edges(<<"B">>, <<"A">>, <<>>)
    /\ list[Len(list)] = "A"

\* The three edge lists of a module.
EdgesOf(m) == <<includes[m], imports[m], excludes[m]>>

\* C16: edges change only during the owner's resolution.  With the
\* declarations of the constructor (and declarations without a target), the
\* includes, imports and excludes of a module are empty until its own
\* resolve() starts, change only in a step of its own resolve(), and never
\* change once its resolve() has completed.
C16_EdgesOnlyInOwnResolve ==
    [][ \A m \in Modules :
          /\ ~resolved[m] => EdgesOf(m) = <<<<>>, <<>>, <<>>>>
          /\ ~resolved'[m] => EdgesOf(m)' = <<<<>>, <<>>, <<>>>>
          /\ EdgesOf(m)' # EdgesOf(m) => (stack # <<>> /\ Top.self = m)
          /\ (resolved[m] /\ ~hasRequires[m]) => EdgesOf(m)' = EdgesOf(m) ]_vars

\* A imports B and B imports A, resolve() of A is about to call the callback
\* of its import: B has completed with its edge to A, A has no edge yet.
C16_Witness ==
    /\ stack = <<[self |-> "A", i |-> 1, pc |-> "cb"]>>
    /\ options["A"] = [imports |-> <<"B">>, excludes |-> <<>>]
    /\ options["B"] = [imports |-> <<"A">>, excludes |-> <<>>]
    /\ resolved["B"] /\ ~hasRequires["B"]
    /\ imports["B"] = <<"A">>
    /\ imports["A"] = <<>>

\* A sequence of targets without the module itself.
DropSelf(seq, m) ==
    LET Other(x) == x # m
    IN SelectSeq(seq, Other)

\* C17: final edges equal the declarations, regardless of cycles and entry
\* point.  In every state, however the resolve() calls were ordered, a
\* module whose resolve() has completed has as imports the targets of its
\* options.imports in order, without itself, and as excludes those of its
\* options.excludes.
C17_FinalEdges ==
    \A m \in Modules :
        (resolved[m] /\ ~hasRequires[m]) =>
            /\ imports[m] = DropSelf(options[m].imports, m)
            /\ excludes[m] = DropSelf(options[m].excludes, m)

\* A imports B and B excludes A, a cycle; resolve() was called on B first
\* and has returned.
C17_Witness ==
    /\ Returned
    /\ last.self = "B"
    /\ options["A"] = [imports |-> <<"B">>, excludes |-> <<>>]
    /\ options["B"] = [imports |-> <<>>, excludes |-> <<"A">>]
    /\ resolved["A"] /\ ~hasRequires["A"]
    /\ resolved["B"] /\ ~hasRequires["B"]
    /\ imports["A"] = <<"B">>
    /\ excludes["B"] = <<"A">>

====
